---- MODULE Spec2Model ----
(***************************************************************************)
(* A model of HighEagle (src/HighEagle.jinja.py): the EagleFilePart tree   *)
(* with its generated container accessors, the EagleFile layer table,      *)
(* attribute coercion, load/save, the Part cross-reference chain and       *)
(* Deviceset.convertToExternal.                                            *)
(*                                                                         *)
(* The class template is instantiated once per tag of a schema table that  *)
(* is generated elsewhere.  The tree part of the model instantiates it for *)
(* one tag that declares one list section (items), one map section         *)
(* (entries, keyed by the child's mapkey attribute) and one singleton      *)
(* section (single): every branch of the template is present.              *)
(***************************************************************************)
EXTENDS Integers, Sequences, FiniteSets, TLC

\* Python's None where a node is expected (nodes are numbered from 1).
None == 0

(***************************************************************************)
(* Part 1: EagleFilePart nodes and the generated container accessors.      *)
(***************************************************************************)

\* Bounds of the tree model: the longest list section, and the number of
\* accessor calls of one run.
MaxLen == 2
MaxOps == 3

\* Three nodes of the tag, each able to own the others.
Nodes == {1, 2, 3}
Keys == {"a", "b"}
\* The key attribute each node was constructed with: two nodes share a key.
KeyOf(n) == IF n = 3 THEN "b" ELSE "a"

VARIABLES
    parent,     \* EagleFilePart.parent of every node: a node or None
    items,      \* the list section of every node: a sequence of nodes
    entries,    \* the map section of every node: key -> node or None (absent)
    single,     \* the singleton section of every node: a node or None
    mapkey,     \* the attribute of a node that a map section uses as its key
    tres,       \* how the last accessor call ended: "ok" or the exception
    nops,       \* the number of accessor calls so far
    tcall       \* the last accessor call: its name, its owner, and the nodes
                \* it was about (the argument; for a clear, the nodes held)

treeVars == <<parent, items, entries, single, mapkey, tres, nops, tcall>>

NoCall == [op |-> "none", owner |-> None, nodes |-> {}]

\* __init__ of EagleFilePart and of a generated class called with no sections:
\* no parent, empty list, empty map, no singleton.  The key attribute is a
\* constructor argument.
TreeInit ==
    /\ parent = [n \in Nodes |-> None]
    /\ items = [n \in Nodes |-> <<>>]
    /\ entries = [n \in Nodes |-> [k \in Keys |-> None]]
    /\ single = [n \in Nodes |-> None]
    /\ mapkey = [n \in Nodes |-> KeyOf(n)]
    /\ tres = "ok"
    /\ nops = 0
    /\ tcall = NoCall

\* The nodes a sequence holds.
Range(s) == {s[i] : i \in 1..Len(s)}

\* dict.values() of the map section.
MapValues(o) == {entries[o][k] : k \in Keys} \ {None}

\* add_{{l.accessorName}}: append, then set the parent.  Nothing is taken out
\* of the container that held s before.
add_list(o, s) ==
    /\ Len(items[o]) < MaxLen
    /\ items' = [items EXCEPT ![o] = Append(@, s)]
    /\ parent' = [parent EXCEPT ![s] = o]
    /\ tres' = "ok"
    /\ UNCHANGED <<entries, single, mapkey>>

\* clear_{{l.name}} without its loop: the list is emptied and nothing else.
clear_list_only_empties(o) ==
    /\ items' = [items EXCEPT ![o] = <<>>]
    /\ tres' = "ok"
    /\ UNCHANGED <<parent, entries, single, mapkey>>

\* clear_{{l.name}}: every element's parent becomes None, the list is emptied.
clear_list(o) ==
    /\ parent' = [n \in Nodes |-> IF n \in Range(items[o]) THEN None ELSE parent[n]]
    /\ items' = [items EXCEPT ![o] = <<>>]
    /\ tres' = "ok"
    /\ UNCHANGED <<entries, single, mapkey>>

\* set_{{l.accessorName}}: the occupant's parent becomes None, the slot is
\* assigned, then the new occupant's parent is set.  With s = None the last
\* statement raises AttributeError after the first two took effect.
set_singleton(o, s) ==
    /\ single' = [single EXCEPT ![o] = s]
    /\ parent' = [n \in Nodes |->
                    IF n = s THEN o
                    ELSE IF n = single[o] THEN None
                    ELSE parent[n]]
    /\ tres' = IF s = None THEN "AttributeError" ELSE "ok"
    /\ UNCHANGED <<items, entries, mapkey>>

\* add_{{m.accessorName}}: store under the child's key, then set the parent.
\* An entry already stored under that key is replaced.
add_map(o, s) ==
    /\ entries' = [entries EXCEPT ![o][mapkey[s]] = s]
    /\ parent' = [parent EXCEPT ![s] = o]
    /\ tres' = "ok"
    /\ UNCHANGED <<items, single, mapkey>>

\* clear_{{m.name}}: every value's parent becomes None, the map is emptied.
clear_map(o) ==
    /\ parent' = [n \in Nodes |-> IF n \in MapValues(o) THEN None ELSE parent[n]]
    /\ entries' = [entries EXCEPT ![o] = [k \in Keys |-> None]]
    /\ tres' = "ok"
    /\ UNCHANGED <<items, single, mapkey>>

\* remove_{{m.accessorName}}: del of the entry under efp's key (KeyError when
\* there is none, before anything changed), then efp's parent becomes None.
remove_map(o, efp) ==
    IF entries[o][mapkey[efp]] = None
    THEN /\ tres' = "KeyError"
         /\ UNCHANGED <<parent, items, entries, single, mapkey>>
    ELSE /\ entries' = [entries EXCEPT ![o][mapkey[efp]] = None]
         /\ parent' = [parent EXCEPT ![efp] = None]
         /\ tres' = "ok"
         /\ UNCHANGED <<items, single, mapkey>>

\* get_children: the list sections, then the values of the map sections.  The
\* singleton sections are not part of it.
get_children(o) == Range(items[o]) \cup MapValues(o)

\* EagleFilePart.check_sanity as a predicate: no child of o has another parent
\* than o, and the same holds below every child.  The recursion does not end
\* on a cycle of children, which Python ends with a RuntimeError: a path of
\* more than Cardinality(Nodes) children runs through a cycle.
RECURSIVE Sane(_, _)
Sane(o, fuel) ==
    IF fuel = 0 THEN FALSE
    ELSE \A i \in get_children(o) : parent[i] = o /\ Sane(i, fuel - 1)

\* check_sanity: "ok" when it returns, "error" when it raises (HighEagleError
\* for a parent mismatch, RuntimeError for unbounded recursion).
check_sanity(o) == IF Sane(o, Cardinality(Nodes) + 1) THEN "ok" ELSE "error"

(***************************************************************************)
(* Part 2: the layer table of an EagleFile.                                *)
(***************************************************************************)

\* The one EagleFile of the layer model, as a parent of its layers.
FileNode == 1

\* Three Layer objects; their number and name attributes are constructor
\* arguments drawn from two numbers and two names, so that layers can agree
\* on either.
LayerIds == {1, 2, 3}
LayerNumbers == {1, 2}
LayerNames == {"Top", "Bottom"}

VARIABLES
    lnumber,        \* Layer.number of every Layer object
    lname,          \* Layer.name of every Layer object
    layers,         \* EagleFile.layers: number -> Layer or None (absent)
    layersByName,   \* EagleFile.layersByName: name -> Layer or None (absent)
    lparent,        \* parent of every Layer object: FileNode or None
    lres            \* how the last layer call ended: "ok" or the exception

layerVars == <<lnumber, lname, layers, layersByName, lparent, lres>>

\* EagleFile.__init__: both indexes empty; the Layer objects are detached.
LayerInit ==
    /\ lnumber \in [LayerIds -> LayerNumbers]
    /\ lname \in [LayerIds -> LayerNames]
    /\ layers = [n \in LayerNumbers |-> None]
    /\ layersByName = [m \in LayerNames |-> None]
    /\ lparent = [l \in LayerIds |-> None]
    /\ lres = "ok"

\* The layer part when a specification does not use it.
LayerIdle ==
    /\ lnumber = [l \in LayerIds |-> 1]
    /\ lname = [l \in LayerIds |-> "Top"]
    /\ layers = [n \in LayerNumbers |-> None]
    /\ layersByName = [m \in LayerNames |-> None]
    /\ lparent = [l \in LayerIds |-> None]
    /\ lres = "ok"

\* add_layer: the assertion on the argument's type, then both indexes are
\* assigned and the parent set.  Neither index is looked at before it is
\* written.
add_layer(layer) ==
    IF layer \notin LayerIds
    THEN /\ lres' = "AssertionError"
         /\ UNCHANGED <<lnumber, lname, layers, layersByName, lparent>>
    ELSE /\ layers' = [layers EXCEPT ![lnumber[layer]] = layer]
         /\ layersByName' = [layersByName EXCEPT ![lname[layer]] = layer]
         /\ lparent' = [lparent EXCEPT ![layer] = FileNode]
         /\ lres' = "ok"
         /\ UNCHANGED <<lnumber, lname>>

\* The isinstance(layer, Layer) branch of remove_layer: the parent of the
\* layer stored under layer's name becomes None, that name is deleted, then
\* layer's number is deleted.  Each of the three statements raises KeyError
\* when its key is absent, after the statements before it took effect.
remove_layer_object(layer) ==
    IF layersByName[lname[layer]] = None
    THEN /\ lres' = "KeyError"
         /\ UNCHANGED <<lnumber, lname, layers, layersByName, lparent>>
    ELSE /\ lparent' = [lparent EXCEPT ![layersByName[lname[layer]]] = None]
         /\ layersByName' = [layersByName EXCEPT ![lname[layer]] = None]
         /\ IF layers[lnumber[layer]] = None
            THEN /\ lres' = "KeyError"
                 /\ UNCHANGED layers
            ELSE /\ layers' = [layers EXCEPT ![lnumber[layer]] = None]
                 /\ lres' = "ok"
         /\ UNCHANGED <<lnumber, lname>>

\* remove_layer: a str is looked up in layersByName, an int in layers (either
\* lookup raises KeyError), a Layer is removed as above, anything else is a
\* HighEagleError.  The argument is <<kind, value>>.
remove_layer(layer) ==
    CASE layer[1] = "str" ->
            IF layersByName[layer[2]] = None
            THEN /\ lres' = "KeyError"
                 /\ UNCHANGED <<lnumber, lname, layers, layersByName, lparent>>
            ELSE remove_layer_object(layersByName[layer[2]])
      [] layer[1] = "int" ->
            IF layers[layer[2]] = None
            THEN /\ lres' = "KeyError"
                 /\ UNCHANGED <<lnumber, lname, layers, layersByName, lparent>>
            ELSE remove_layer_object(layers[layer[2]])
      [] layer[1] = "Layer" -> remove_layer_object(layer[2])
      [] OTHER ->
            /\ lres' = "HighEagleError"
            /\ UNCHANGED <<lnumber, lname, layers, layersByName, lparent>>

\* What remove_layer can be called with.
LayerSpecs ==
    ({"str"} \X LayerNames) \cup ({"int"} \X LayerNumbers)
        \cup ({"Layer"} \X LayerIds) \cup {<<"other", None>>}

\* layer_number_to_name: <<"ok", name>>, or the HighEagleError, which names
\* the file.
layer_number_to_name(num) ==
    IF num \notin LayerNumbers \/ layers[num] = None
    THEN <<"HighEagleError", "No layer number", "filename">>
    ELSE <<"ok", lname[layers[num]]>>

\* layer_name_to_number: <<"ok", number>>, or the HighEagleError, which names
\* the file.
layer_name_to_number(name) ==
    IF name \notin LayerNames \/ layersByName[name] = None
    THEN <<"HighEagleError", "No layer named", "filename">>
    ELSE <<"ok", lnumber[layersByName[name]]>>

\* layer_number_to_name(layer_name_to_number(name)): an exception of the
\* inner call is the result.
LayerRoundTrip(name) ==
    LET r == layer_name_to_number(name)
    IN  IF r[1] = "ok" THEN layer_number_to_name(r[2]) ELSE r

(***************************************************************************)
(* Part 3: the cross-reference chain of a Part.                            *)
(*                                                                         *)
(* The Part is a node of the tree of part 1 (Part extends a generated      *)
(* class), and so is the file whose libraries map the chain starts from.   *)
(* Libraries, device-sets, devices and technologies are looked up by key   *)
(* only, so the content of the libraries map is the set of key paths that  *)
(* exist in it: <<l>> for library l, <<l, s>> for device-set s in it, ...  *)
(***************************************************************************)

\* The nodes that are Parts, and the nodes that have a libraries map.
Parts == {1}
LibraryOwners == {3}

\* self.name of the Part.
PartName == "P1"

\* The keys a Part can carry; NoKey is an attribute that is None.
NoKey == "<None>"
PartKeys == {NoKey, "a", "b"}

\* The contents a libraries map can have: the chain a/a/a/a cut at any depth.
FullChain == <<"a", "a", "a", "a">>
LibraryContents == {{SubSeq(FullChain, 1, i) : i \in 1..d} : d \in 0..Len(FullChain)}

VARIABLES
    library,        \* Part.library
    deviceset,      \* Part.deviceset
    device,         \* Part.device
    technology,     \* Part.technology
    libraries,      \* the key paths present below the libraries map
    xres,           \* the result of the last Part.check_sanity call
    xfound          \* the last find_* call: <<step>> \o its result

xrefVars == <<library, deviceset, device, technology, libraries, xres, xfound>>

\* A Part is constructed with any keys; the libraries map has any content.
XrefInit ==
    /\ library \in PartKeys
    /\ deviceset \in PartKeys
    /\ device \in PartKeys
    /\ technology \in PartKeys
    /\ libraries \in LibraryContents
    /\ xres = <<"none">>
    /\ xfound = <<"none">>

\* The cross-reference part when a specification does not use it.
XrefIdle ==
    /\ library = NoKey
    /\ deviceset = NoKey
    /\ device = NoKey
    /\ technology = NoKey
    /\ libraries = {}
    /\ xres = <<"none">>
    /\ xfound = <<"none">>

\* get_root: follow parent to the node that has none.  None stands for the
\* RuntimeError that ends the recursion when the parents form a cycle.
RECURSIVE get_root_from(_, _)
get_root_from(n, fuel) ==
    IF fuel = 0 THEN None
    ELSE IF parent[n] = None THEN n
    ELSE get_root_from(parent[n], fuel - 1)

get_root(n) == get_root_from(n, Cardinality(Nodes) + 1)

\* dict.get below the libraries map: the path when it is present, else None.
Lookup(path) == IF path \in libraries THEN <<"ok", path>> ELSE <<"None">>

\* find_library: self.get_root().libraries.get(self.library).  A root with
\* no libraries attribute raises AttributeError.
find_library(p) ==
    IF get_root(p) = None THEN <<"RuntimeError">>
    ELSE IF get_root(p) \notin LibraryOwners THEN <<"AttributeError">>
    ELSE Lookup(<<library>>)

\* find_deviceset: find_library().devicesets.get(self.deviceset); the
\* attribute access on a None library raises AttributeError.
find_deviceset(p) ==
    LET lib == find_library(p)
    IN  IF lib[1] = "ok" THEN Lookup(Append(lib[2], deviceset))
        ELSE IF lib[1] = "None" THEN <<"AttributeError">>
        ELSE lib

\* find_device: find_deviceset().devices.get(self.device).
find_device(p) ==
    LET ds == find_deviceset(p)
    IN  IF ds[1] = "ok" THEN Lookup(Append(ds[2], device))
        ELSE IF ds[1] = "None" THEN <<"AttributeError">>
        ELSE ds

\* find_technology: find_device().technologies.get(self.technology).
find_technology(p) ==
    LET dev == find_device(p)
    IN  IF dev[1] = "ok" THEN Lookup(Append(dev[2], technology))
        ELSE IF dev[1] = "None" THEN <<"AttributeError">>
        ELSE dev

\* The four steps of the chain, in order.
FindSteps == <<"library", "deviceset", "device", "technology">>

\* The find_* method of one step.
find(p, step) ==
    CASE step = 1 -> find_library(p)
      [] step = 2 -> find_deviceset(p)
      [] step = 3 -> find_device(p)
      [] step = 4 -> find_technology(p)

\* The HighEagleError of Part.check_sanity for one segment.  Its message is
\* built with +, which raises TypeError when the key is None.
MissingError(segment, key) ==
    IF key = NoKey THEN <<"TypeError">>
    ELSE <<"HighEagleError", segment, key, PartName>>

\* Part.check_sanity: library, device-set and device must be found (a None
\* result and any exception of the lookup both end in the HighEagleError of
\* that segment), then the check of EagleFilePart on the Part's children.
Part_check_sanity(p) ==
    IF find_library(p)[1] # "ok" THEN MissingError("Library", library)
    ELSE IF find_deviceset(p)[1] # "ok" THEN MissingError("DeviceSet", deviceset)
    ELSE IF find_device(p)[1] # "ok" THEN MissingError("Device", device)
    ELSE IF check_sanity(p) # "ok" THEN <<"HighEagleError", "Parent pointer mismatch">>
    ELSE <<"ok">>

(***************************************************************************)
(* Part 4: Deviceset.convertToExternal.                                    *)
(*                                                                         *)
(* One Deviceset with its devices map (keyed by the device's name); every  *)
(* Device has a name, a package, a list of connects and a technologies map *)
(* (keyed by the technology's name); every Technology has an attributes    *)
(* map (keyed by the attribute's name).                                    *)
(***************************************************************************)

\* The longest connects list of a device.
MaxConnects == 1

\* The Device objects: two that exist from the start, and the one that
\* convertToExternal constructs for a device-set without devices.
InitialDevices == {1, 2}
NewDevice == 3
DevIds == InitialDevices \cup {NewDevice}

\* The one Deviceset, as a parent of its devices.
DevicesetNode == 1

DevNames == {"", "A", "B"}
TechNames == {"", "T"}
AttrNames == {"X", "_EXTERNAL_"}

\* The value of an attribute: absent from the map, a library value, or the
\* None of an Attribute constructed with a name only.
Absent == "<absent>"
NoValue == "<None>"
AttrVals == {Absent, "v", NoValue}
NoAttributes == [a \in AttrNames |-> Absent]

VARIABLES
    devices,        \* Deviceset.devices: name -> Device or None (absent)
    dname,          \* Device.name
    dpackage,       \* Device.package
    dconnects,      \* the length of Device.connects
    dparent,        \* parent of every Device: DevicesetNode or None
    techsKind,      \* the type of Device.technologies: "dict" or "list"
    techs,          \* the technology names held by Device.technologies
    attrs,          \* Technology.attributes of every technology of a device
    eprior,         \* the devices held when convertToExternal was last called
    eres            \* how the last convertToExternal call ended

extVars == <<devices, dname, dpackage, dconnects, dparent, techsKind, techs,
             attrs, eprior, eres>>

\* The devices are constructed, with their technologies and attributes, and
\* not yet added to the device-set.
ExtInit ==
    /\ devices = [n \in DevNames |-> None]
    /\ dname \in {f \in [DevIds -> DevNames] : f[1] = "A" /\ f[NewDevice] = ""}
    /\ dpackage = [d \in DevIds |-> "SOT23"]
    /\ dconnects \in {f \in [DevIds -> 0..MaxConnects] : f[NewDevice] = 0}
    /\ dparent = [d \in DevIds |-> None]
    /\ techsKind = [d \in DevIds |-> "dict"]
    /\ techs \in {f \in [DevIds -> SUBSET TechNames] : f[NewDevice] = {}}
    /\ attrs \in {f \in [DevIds -> [TechNames -> [AttrNames -> {Absent, "v"}]]] :
                    \A d \in DevIds, t \in TechNames :
                        t \notin techs[d] => f[d][t] = NoAttributes}
    /\ eprior = {}
    /\ eres = "none"

\* The device-set part when a specification does not use it.
ExtIdle ==
    /\ devices = [n \in DevNames |-> None]
    /\ dname = [d \in DevIds |-> ""]
    /\ dpackage = [d \in DevIds |-> "SOT23"]
    /\ dconnects = [d \in DevIds |-> 0]
    /\ dparent = [d \in DevIds |-> None]
    /\ techsKind = [d \in DevIds |-> "dict"]
    /\ techs = [d \in DevIds |-> {}]
    /\ attrs = [d \in DevIds |-> [t \in TechNames |-> NoAttributes]]
    /\ eprior = {}
    /\ eres = "none"

\* self.get_devices().values()
DeviceValues == {devices[n] : n \in DevNames} \ {None}

\* add_device: the map add of the template, on the devices map.
add_device(d) ==
    /\ devices' = [devices EXCEPT ![dname[d]] = d]
    /\ dparent' = [dparent EXCEPT ![d] = DevicesetNode]
    /\ UNCHANGED <<dname, dpackage, dconnects, techsKind, techs, attrs, eprior, eres>>

\* convertToExternal without its last two lines: no technology is tagged.
WithMarker_untagged(d) == attrs[d]

\* t.add_attribute(Attribute(name="_EXTERNAL_")) for every t in
\* d.get_technologies().values(): the marker is stored under its name in
\* every technology of d, replacing an attribute of that name.
WithMarker(d) ==
    [t \in TechNames |->
        IF t \in techs[d] THEN [attrs[d][t] EXCEPT !["_EXTERNAL_"] = NoValue]
        ELSE attrs[d][t]]

\* convertToExternal.  With devices: d is the first of values() (a dict has
\* no order to rely on: any of them), every device is removed, d is renamed,
\* given the package "_EXTERNAL_", stripped of its connects and added again;
\* every technology d has gets the marker attribute.  Without devices: a
\* Device is constructed with a list of one Technology, added, and the
\* .values() of that list raises AttributeError.
convertToExternal ==
    /\ eprior' = DeviceValues
    /\ IF DeviceValues # {}
       THEN \E d \in DeviceValues :
                /\ devices' = [n \in DevNames |-> IF n = "" THEN d ELSE None]
                /\ dparent' = [i \in DevIds |->
                                 IF i = d THEN DevicesetNode
                                 ELSE IF i \in DeviceValues THEN None
                                 ELSE dparent[i]]
                /\ dname' = [dname EXCEPT ![d] = ""]
                /\ dpackage' = [dpackage EXCEPT ![d] = "_EXTERNAL_"]
                /\ dconnects' = [dconnects EXCEPT ![d] = 0]
                /\ IF techsKind[d] = "dict"
                   THEN /\ attrs' = [attrs EXCEPT ![d] = WithMarker(d)]
                        /\ eres' = "ok"
                   ELSE /\ attrs' = attrs
                        /\ eres' = "AttributeError"
                /\ UNCHANGED <<techsKind, techs>>
       ELSE /\ devices' = [devices EXCEPT ![""] = NewDevice]
            /\ dparent' = [dparent EXCEPT ![NewDevice] = DevicesetNode]
            /\ dname' = [dname EXCEPT ![NewDevice] = ""]
            /\ dpackage' = [dpackage EXCEPT ![NewDevice] = "_EXTERNAL_"]
            /\ techsKind' = [techsKind EXCEPT ![NewDevice] = "list"]
            /\ techs' = [techs EXCEPT ![NewDevice] = {""}]
            /\ attrs' = [attrs EXCEPT ![NewDevice] = [t \in TechNames |-> NoAttributes]]
            /\ eres' = "AttributeError"
            /\ UNCHANGED dconnects

(***************************************************************************)
(* Part 5: EagleFile.from_file, EagleFile.validate and EagleFile.write.    *)
(*                                                                         *)
(* The document that is loaded holds one part and a libraries map: the     *)
(* state of part 3.  from_et builds the tree of part 1 from it: the file   *)
(* node with the Part in its map section.  The DTD validator is outside    *)
(* the program: its verdicts are inputs.  Both calls are modelled step by  *)
(* step, so that the order of their effects can be stated.                 *)
(***************************************************************************)

\* The file node that from_et builds, and the Part it holds.
LoadedFile == CHOOSE f \in LibraryOwners : TRUE
LoadedPart == CHOOSE q \in Parts : TRUE

\* filename[-4:] of the file that is loaded.
Suffixes == {".sch", ".brd", ".lbr", ".txt"}

\* EagleFile.filename: None until from_file sets it.
NoFilename == "<None>"
InName == "in"
\* The path write is called with, and the paths it can open.
OutPath == <<"out">>
BrokenPath == <<"out", ".broken.xml">>

VARIABLES
    fin,        \* the input of from_file: the file on disk and bestEffort
    fpc,        \* the position in from_file
    fres,       \* the result of from_file: "returned" or the exception
    flog,       \* the steps from_file has taken
    filename,   \* EagleFile.filename of the file object
    ef,         \* the file object the caller holds: a node or None
    win,        \* the verdicts of the validator on the serialization
    wpc,        \* the position in write
    wres,       \* the result of write: "returned" or the exception
    written     \* the paths write has opened for writing, in order

ioVars == <<fin, fpc, fres, flog, filename, ef, win, wpc, wres, written>>

FileInputs ==
    [wellformed : BOOLEAN, valid : BOOLEAN, bestEffort : BOOLEAN,
     suffix : Suffixes, rootTag : {"eagle", "other"}]

WriteInputs == [valid : BOOLEAN, noneAttribute : BOOLEAN]

IOInit ==
    /\ fin \in FileInputs
    /\ fpc = "start"
    /\ fres = "none"
    /\ flog = <<>>
    /\ filename = NoFilename
    /\ ef = None
    /\ win \in WriteInputs
    /\ wpc = "idle"
    /\ wres = "none"
    /\ written = <<>>

\* The load/save part when a specification does not use it.
IOIdle ==
    /\ fin = [wellformed |-> TRUE, valid |-> TRUE, bestEffort |-> TRUE,
              suffix |-> ".sch", rootTag |-> "eagle"]
    /\ fpc = "start"
    /\ fres = "none"
    /\ flog = <<>>
    /\ filename = NoFilename
    /\ ef = None
    /\ win = [valid |-> TRUE, noneAttribute |-> FALSE]
    /\ wpc = "idle"
    /\ wres = "none"
    /\ written = <<>>

\* from_file and write without their check_sanity call.
File_check_sanity_skipped(f) == "ok"

\* check_sanity of a file: EagleFilePart.check_sanity, where the call on a
\* child that is a Part is Part.check_sanity.
File_check_sanity(f) ==
    IF \A i \in get_children(f) :
          /\ parent[i] = f
          /\ IF i \in Parts THEN Part_check_sanity(i) = <<"ok">>
             ELSE Sane(i, Cardinality(Nodes))
    THEN "ok" ELSE "HighEagleError"

\* from_file, step 1: ET.parse; XMLSyntaxError becomes EagleFormatError.
from_file_parse ==
    /\ fpc = "start"
    /\ flog' = Append(flog, "parse")
    /\ IF fin.wellformed
       THEN fpc' = "parsed" /\ fres' = fres
       ELSE fpc' = "done" /\ fres' = "EagleFormatError"
    /\ UNCHANGED <<fin, filename, ef, win, wpc, wres, written>>

\* from_file, step 2: DTD.validate(root); a failure is logged with
\* bestEffort and raised as EagleFormatError without.
from_file_validate ==
    /\ fpc = "parsed"
    /\ flog' = Append(flog, IF fin.valid THEN "validate" ELSE "validate failed")
    /\ IF fin.valid \/ fin.bestEffort
       THEN fpc' = "validated" /\ fres' = fres
       ELSE fpc' = "done" /\ fres' = "EagleFormatError"
    /\ UNCHANGED <<fin, filename, ef, win, wpc, wres, written>>

\* from_file, step 3: the class is chosen by the suffix (HighEagleError for
\* an unknown one) and its from_et builds the tree (EagleFormatError when
\* the root tag is not the class's); then filename is set.
from_file_from_et ==
    /\ fpc = "validated"
    /\ flog' = Append(flog, "from_et")
    /\ IF fin.suffix \notin {".sch", ".brd", ".lbr"}
       THEN /\ fpc' = "done" /\ fres' = "HighEagleError"
            /\ UNCHANGED <<filename, parent, entries, tres>>
       ELSE IF fin.rootTag # "eagle"
       THEN /\ fpc' = "done" /\ fres' = "EagleFormatError"
            /\ UNCHANGED <<filename, parent, entries, tres>>
       ELSE /\ fpc' = "built" /\ fres' = fres
            /\ add_map(LoadedFile, LoadedPart)
            /\ filename' = InName
    /\ UNCHANGED <<fin, ef, win, wpc, wres, written>>

\* from_file, step 4: ef.check_sanity(), which raises or returns.
from_file_check_sanity ==
    /\ fpc = "built"
    /\ IF File_check_sanity(LoadedFile) = "ok"
       THEN /\ flog' = Append(flog, "check_sanity")
            /\ fpc' = "checked" /\ fres' = fres
       ELSE /\ flog' = Append(flog, "check_sanity failed")
            /\ fpc' = "done" /\ fres' = "HighEagleError"
    /\ UNCHANGED <<fin, filename, ef, win, wpc, wres, written>>

\* from_file, step 5: return ef.
from_file_return ==
    /\ fpc = "checked"
    /\ fpc' = "done"
    /\ fres' = "returned"
    /\ ef' = LoadedFile
    /\ UNCHANGED <<fin, flog, filename, win, wpc, wres, written>>

\* A file object constructed by the caller: EagleFile.__init__ leaves
\* filename None.
construct_file ==
    /\ fpc = "start"
    /\ fpc' = "done"
    /\ fres' = "constructed"
    /\ ef' = LoadedFile
    /\ UNCHANGED <<fin, flog, filename, win, wpc, wres, written>>

\* validate that returns the verdict of the DTD and nothing else.
validate_dtd_only == IF win.valid THEN "True" ELSE "False"

\* validate: the verdict of the DTD on get_et() is logged (the message of a
\* valid tree is built from self.filename with +, a TypeError when it is
\* None), then False is returned for an attribute that reads "None".
validate ==
    IF win.valid /\ filename = NoFilename THEN "TypeError"
    ELSE IF win.noneAttribute THEN "False"
    ELSE IF win.valid THEN "True" ELSE "False"

\* write, step 1: self.check_sanity().
write_check_sanity ==
    /\ ef # None /\ wpc = "idle"
    /\ IF File_check_sanity(ef) = "ok"
       THEN wpc' = "checked" /\ wres' = wres
       ELSE wpc' = "done" /\ wres' = "HighEagleError"
    /\ UNCHANGED <<fin, fpc, fres, flog, filename, ef, win, written>>

\* write, step 2: self.validate() chooses the file that is opened: the
\* target, or filename + ".broken.xml".
write_open ==
    /\ wpc = "checked"
    /\ IF validate = "TypeError"
       THEN wpc' = "done" /\ wres' = "TypeError" /\ written' = written
       ELSE IF validate = "True"
       THEN wpc' = "done" /\ wres' = "returned" /\ written' = Append(written, OutPath)
       ELSE wpc' = "broken written" /\ wres' = wres
                /\ written' = Append(written, BrokenPath)
    /\ UNCHANGED <<fin, fpc, fres, flog, filename, ef, win>>

\* write, step 3: after the broken file, the HighEagleError; its message
\* takes the first entry of the DTD's error log, an IndexError when the DTD
\* had accepted the tree.
write_raise ==
    /\ wpc = "broken written"
    /\ wpc' = "done"
    /\ wres' = IF win.valid THEN "IndexError" ELSE "HighEagleError"
    /\ UNCHANGED <<fin, fpc, fres, flog, filename, ef, win, written>>

\* Part.set_device with a library: between load and save the caller may
\* point the part at another library.
set_device(lib) ==
    /\ library' = lib
    /\ UNCHANGED <<deviceset, device, technology, libraries, xres, xfound>>

(***************************************************************************)
(* Part 6: parseByType and unparseByType.                                  *)
(*                                                                         *)
(* A raw attribute value is a string, a sequence of characters, or None (the *)
(* attribute is absent).  Python values are written as sequences too, so   *)
(* that any two of them can be compared: a string is the sequence of its   *)
(* characters, True, False and None are sequences of one word.  The types  *)
(* int, float and layer_string are not among the attribute types here.     *)
(***************************************************************************)

\* The longest raw string.
MaxRaw == 3

Chars == {"y", "Y", "e", "E", "s", "S", "n", "N", "o", "O", "m"}

PyNone == <<"None">>
PyTrue == <<"True">>
PyFalse == <<"False">>
Unset == <<"unset">>
Raised == <<"HighEagleError">>

RawStrings == UNION {[1..n -> Chars] : n \in 0..MaxRaw}

\* "color" is not a type parseByType knows.
AttrTypes == {"str", "bool", "constant_bool", "color"}

\* str.upper on the characters of the model.
UpperChar(c) ==
    CASE c = "y" -> "Y"
      [] c = "e" -> "E"
      [] c = "s" -> "S"
      [] c = "n" -> "N"
      [] c = "o" -> "O"
      [] c = "m" -> "M"
      [] OTHER -> c

\* A comparison of the raw string itself with "YES" and "NO".
upper_omitted(s) == s

upper(s) == [i \in 1..Len(s) |-> UpperChar(s[i])]

parseByType(attrType, s) ==
    IF s # PyNone
    THEN CASE attrType = "str" -> s
           [] attrType = "bool" ->
                IF upper(s) \in {<<"Y", "E", "S">>} THEN PyTrue
                ELSE IF upper(s) \in {<<"N", "O">>} THEN PyFalse
                ELSE Raised
           [] attrType = "constant_bool" ->
                IF s # <<"n", "o">> THEN PyTrue ELSE PyFalse
           [] OTHER -> Raised
    ELSE PyNone

unparseByType(attrType, v) ==
    IF v # PyNone
    THEN CASE attrType = "str" -> v
           [] attrType = "bool" ->
                IF v = PyTrue THEN <<"y", "e", "s">> ELSE <<"n", "o">>
           [] attrType = "constant_bool" ->
                IF v = PyFalse THEN <<"n", "o">> ELSE PyNone
           [] OTHER -> Raised
    ELSE PyNone

VARIABLES
    ctype,      \* the attribute type of the coercion
    craw,       \* the raw value that is parsed
    cval,       \* the result of parseByType
    cout        \* the result of unparseByType on cval

coerceVars == <<ctype, craw, cval, cout>>

CoerceInit ==
    /\ ctype \in AttrTypes
    /\ craw \in RawStrings \cup {PyNone}
    /\ cval = Unset
    /\ cout = Unset

\* The coercion part when a specification does not use it.
CoerceIdle ==
    /\ ctype = "str"
    /\ craw = PyNone
    /\ cval = Unset
    /\ cout = Unset

(***************************************************************************)
(* Part 7: from_et and get_et of the class template.                       *)
(*                                                                         *)
(* The template is instantiated for one tag with three attributes, a list  *)
(* section of the same tag and preserved text.  An element is a record of  *)
(* its raw attributes (None for an absent one), its child elements and its *)
(* text; a node is the record of its attribute values, its children and    *)
(* its text, so that equality of nodes is deep equality without identity.  *)
(***************************************************************************)

\* The most child elements of the root element.
MaxChildren == 1

AttrKeys == {"name", "constant", "smashed"}

\* a.vtype and a.required of the tag's attributes.
vtype(k) ==
    CASE k = "name" -> "str"
      [] k = "constant" -> "constant_bool"
      [] k = "smashed" -> "bool"

required(k) == k = "name"

\* The raw values the documents give to an attribute.
DocRaws(k) ==
    CASE k = "name" -> {PyNone, <<"m">>}
      [] k = "constant" -> {PyNone, <<"y", "e", "s">>, <<"n", "o">>}
      [] k = "smashed" -> {PyNone, <<"y", "e", "s">>, <<"n", "o">>, <<"m">>}

Texts == {PyNone, <<"m">>}

ElementAttrs ==
    [name : DocRaws("name"), constant : DocRaws("constant"),
     smashed : DocRaws("smashed")]

LeafElements == [attrs : ElementAttrs, children : {<<>>}, text : Texts]

Documents ==
    [attrs : ElementAttrs,
     children : UNION {[1..n -> LeafElements] : n \in 0..MaxChildren},
     text : Texts]

NoNode == [raised |-> "unset", attrs |-> [k \in AttrKeys |-> PyNone],
           children |-> <<>>, text |-> PyNone]

\* from_et: the constructor is called with the parsed attributes, every
\* element of the list section is built by from_et and added, the text is
\* kept.  An error of parseByType ends it.
RECURSIVE from_et(_)
from_et(root) ==
    LET a == [k \in AttrKeys |-> parseByType(vtype(k), root.attrs[k])]
        c == [i \in 1..Len(root.children) |-> from_et(root.children[i])]
    IN  IF \/ \E k \in AttrKeys : a[k] = Raised
           \/ \E i \in 1..Len(c) : c[i].raised # "none"
        THEN [NoNode EXCEPT !.raised = "HighEagleError"]
        ELSE [raised |-> "none", attrs |-> a, children |-> c, text |-> root.text]

\* The value get_et sets for attribute k: the unparsed value; for None, ""
\* when the attribute is required and no attribute otherwise.
et_attribute(n, k) ==
    LET v == unparseByType(vtype(k), n.attrs[k])
    IN  IF v # PyNone THEN v
        ELSE IF required(k) THEN <<>> ELSE PyNone

\* get_et: the attributes, then the list section, then the text.
RECURSIVE get_et(_)
get_et(n) ==
    [attrs |-> [k \in AttrKeys |-> et_attribute(n, k)],
     children |-> [i \in 1..Len(n.children) |-> get_et(n.children[i])],
     text |-> n.text]

VARIABLES
    rdoc,       \* the document D
    rtree,      \* from_et of D
    rser,       \* get_et of rtree
    rtree2      \* from_et of rser

docVars == <<rdoc, rtree, rser, rtree2>>

NoElement == [attrs |-> [k \in AttrKeys |-> PyNone], children |-> <<>>,
              text |-> <<"unset">>]

DocInit ==
    /\ rdoc \in Documents
    /\ rtree = NoNode
    /\ rser = NoElement
    /\ rtree2 = NoNode

\* The document part when a specification does not use it.
DocIdle ==
    /\ rdoc = NoElement
    /\ rtree = NoNode
    /\ rser = NoElement
    /\ rtree2 = NoNode

(***************************************************************************)
(* Part 8: clone of the class template.                                    *)
(*                                                                         *)
(* A heap of six objects: three that exist, arranged as a tree that the    *)
(* accessors or from_et have built (every held node is held once, by its   *)
(* parent), and three that clone can construct.  The copy that clone makes *)
(* of object n is object Fresh(n): each node of a tree is copied once.     *)
(***************************************************************************)

Originals == {1, 2, 3}
Fresh(n) == n + Cardinality(Originals)
Heap == Originals \cup {Fresh(n) : n \in Originals}

\* The key attribute of an object; copy.copy gives the copy the same one.
HeapKey(n) == IF n \in {3, Fresh(3)} THEN "b" ELSE "a"

\* Where a node is held by its holder, if it is held.
Places == {"none", "list", "map", "single"}

VARIABLES
    hparent,    \* parent of every object: an object or None
    hitems,     \* the list section of every object
    hentries,   \* the map section of every object: key -> object or None
    hsingle,    \* the singleton section of every object: an object or None
    hres        \* what the last clone() returned: an object or None

cloneVars == <<hparent, hitems, hentries, hsingle, hres>>

\* The tree with node 2 held at place p2 of node 1 and node 3 held at place
\* p3 of node h3; before3 puts 3 before 2 when both are in the list of 1.
TreeOf(p2, p3, h3, before3) ==
    LET l2 == IF p2 = "list" THEN <<2>> ELSE <<>>
        l3(h) == IF p3 = "list" /\ h3 = h THEN <<3>> ELSE <<>>
    IN  /\ hparent = [n \in Heap |->
                        IF n = 2 /\ p2 # "none" THEN 1
                        ELSE IF n = 3 /\ p3 # "none" THEN h3
                        ELSE None]
        /\ hitems = [n \in Heap |->
                        IF n = 1 THEN (IF before3 THEN l3(1) \o l2 ELSE l2 \o l3(1))
                        ELSE IF n = 2 THEN l3(2)
                        ELSE <<>>]
        /\ hentries = [n \in Heap |-> [k \in Keys |->
                        IF n = 1 /\ p2 = "map" /\ k = HeapKey(2) THEN 2
                        ELSE IF n = h3 /\ p3 = "map" /\ k = HeapKey(3) THEN 3
                        ELSE None]]
        /\ hsingle = [n \in Heap |->
                        IF n = 1 /\ p2 = "single" THEN 2
                        ELSE IF n = h3 /\ p3 = "single" THEN 3
                        ELSE None]

CloneInit ==
    /\ \E p2 \in Places, p3 \in Places, h3 \in {1, 2}, before3 \in BOOLEAN :
          /\ ~(p2 = "single" /\ p3 = "single" /\ h3 = 1)
          /\ TreeOf(p2, p3, h3, before3)
    /\ hres = None

\* The clone part when a specification does not use it.
CloneIdle ==
    /\ TreeOf("none", "none", 1, FALSE)
    /\ hres = None

\* The values of the map section of object n.
HeapMapValues(n) == {hentries[n][k] : k \in Keys} \ {None}

\* The objects clone() of x calls clone() on: x, the values of its map, the
\* elements of its list and its singleton occupant, and theirs.
RECURSIVE Cloned(_, _)
Cloned(seen, k) ==
    IF k = 0 THEN seen
    ELSE Cloned(seen \cup {n \in Heap : \E h \in seen :
                    \/ n \in Range(hitems[h])
                    \/ n \in HeapMapValues(h)
                    \/ hsingle[h] = n}, k - 1)

\* The copy of a reference: the copy of the object, None for None.
CopyOf(n) == IF n = None THEN None ELSE Fresh(n)

\* clone: n = copy.copy(self); the map and the list are filled with the clones
\* of the values and elements through add_, which sets their parent to n; the
\* singleton slot is assigned the clone of the occupant, whose parent stays
\* the None its own clone() ended with; then n.parent = None.
clone(x) ==
    LET D == Cloned({x}, Cardinality(Originals))
        src(c) == c - Cardinality(Originals)
        copies == {Fresh(n) : n \in D}
        added(n) == {h \in D : n \in Range(hitems[h]) \cup HeapMapValues(h)}
    IN  /\ hitems' = [c \in Heap |->
                        IF c \in copies
                        THEN [i \in 1..Len(hitems[src(c)]) |-> Fresh(hitems[src(c)][i])]
                        ELSE hitems[c]]
        /\ hentries' = [c \in Heap |->
                        IF c \in copies
                        THEN [k \in Keys |-> CopyOf(hentries[src(c)][k])]
                        ELSE hentries[c]]
        /\ hsingle' = [c \in Heap |->
                        IF c \in copies THEN CopyOf(hsingle[src(c)]) ELSE hsingle[c]]
        /\ hparent' = [c \in Heap |->
                        IF c \notin copies THEN hparent[c]
                        ELSE IF src(c) = x \/ added(src(c)) = {} THEN None
                        ELSE Fresh(CHOOSE h \in added(src(c)) : TRUE)]
        /\ hres' = Fresh(x)

(***************************************************************************)
(* Part 9: the layer_string coercion.                                      *)
(*                                                                         *)
(* The node the coercion is called for is a node of the tree of part 1;    *)
(* node FileNode is the EagleFile, with the layer table of part 2.         *)
(***************************************************************************)

VARIABLES
    rref        \* the last layer_string coercion: its direction, the node it
                \* was called for and its result

refVars == <<rref>>

NoRef == [op |-> "none", efp |-> None, res |-> <<"none">>]

RefIdle == rref = NoRef

\* The layers of the layer-reference specification: Layer objects with
\* distinct numbers and names, none of them added yet.
RefInit ==
    /\ lnumber = [l \in LayerIds |-> IF l = 1 THEN 1 ELSE 2]
    /\ lname = [l \in LayerIds |-> IF l = 1 THEN "Top" ELSE "Bottom"]
    /\ layers = [n \in LayerNumbers |-> None]
    /\ layersByName = [m \in LayerNames |-> None]
    /\ lparent = [l \in LayerIds |-> None]
    /\ lres = "ok"
    /\ rref = NoRef

\* get_file: the root, when it is an EagleFile, else None.
get_file(efp) == IF get_root(efp) = FileNode THEN FileNode ELSE None

\* parseByType "layer_string": efp.get_file().layer_number_to_name(int(s)).
\* The attribute access on a None file, or on a None efp, raises
\* AttributeError; parents that form a cycle end get_root in a RuntimeError.
parse_layer_string(efp, num) ==
    IF efp = None THEN <<"AttributeError">>
    ELSE IF get_root(efp) = None THEN <<"RuntimeError">>
    ELSE IF get_file(efp) = None THEN <<"AttributeError">>
    ELSE layer_number_to_name(num)

\* unparseByType "layer_string": efp.get_file().layer_name_to_number(v).
unparse_layer_string(efp, name) ==
    IF efp = None THEN <<"AttributeError">>
    ELSE IF get_root(efp) = None THEN <<"RuntimeError">>
    ELSE IF get_file(efp) = None THEN <<"AttributeError">>
    ELSE layer_name_to_number(name)

(***************************************************************************)
(* The specifications: one per part.  Every action is one call, or one     *)
(* step of from_file or of write; the parts a specification does not use   *)
(* keep their idle values.                                                 *)
(***************************************************************************)

vars == <<treeVars, layerVars, xrefVars, extVars, ioVars, coerceVars, docVars, cloneVars, refVars>>

\* The tree part when a specification does not use it.
TreeIdle == TreeInit

\* One more accessor call fits in the run.
Tick ==
    /\ nops < MaxOps
    /\ nops' = nops + 1

\* The call that is made is recorded.
Call(op, o, ns) == tcall' = [op |-> op, owner |-> o, nodes |-> ns]

AddList ==
    \E o \in Nodes, s \in Nodes :
        Tick /\ Call("add_list", o, {s}) /\ add_list(o, s)
        /\ UNCHANGED <<layerVars, xrefVars, extVars, ioVars, coerceVars, docVars, cloneVars, refVars>>

ClearList ==
    \E o \in Nodes :
        Tick /\ Call("clear_list", o, Range(items[o])) /\ clear_list(o)
        /\ UNCHANGED <<layerVars, xrefVars, extVars, ioVars, coerceVars, docVars, cloneVars, refVars>>

SetSingleton ==
    \E o \in Nodes, s \in Nodes \cup {None} :
        Tick /\ Call("set_singleton", o, {s}) /\ set_singleton(o, s)
        /\ UNCHANGED <<layerVars, xrefVars, extVars, ioVars, coerceVars, docVars, cloneVars, refVars>>

AddMap ==
    \E o \in Nodes, s \in Nodes :
        Tick /\ Call("add_map", o, {s}) /\ add_map(o, s)
        /\ UNCHANGED <<layerVars, xrefVars, extVars, ioVars, coerceVars, docVars, cloneVars, refVars>>

ClearMap ==
    \E o \in Nodes :
        Tick /\ Call("clear_map", o, MapValues(o)) /\ clear_map(o)
        /\ UNCHANGED <<layerVars, xrefVars, extVars, ioVars, coerceVars, docVars, cloneVars, refVars>>

RemoveMap ==
    \E o \in Nodes, efp \in Nodes :
        Tick /\ Call("remove_map", o, {efp}) /\ remove_map(o, efp)
        /\ UNCHANGED <<layerVars, xrefVars, extVars, ioVars, coerceVars, docVars, cloneVars, refVars>>

TreeNext ==
    \/ AddList
    \/ ClearList
    \/ SetSingleton
    \/ AddMap
    \/ ClearMap
    \/ RemoveMap

InitTree == TreeInit /\ LayerIdle /\ XrefIdle /\ ExtIdle /\ IOIdle /\ CoerceIdle /\ DocIdle
        /\ CloneIdle /\ RefIdle

SpecTree == InitTree /\ [][TreeNext]_vars

AddLayer ==
    \E layer \in LayerIds \cup {None} :
        add_layer(layer) /\ UNCHANGED <<treeVars, xrefVars, extVars, ioVars, coerceVars, docVars, cloneVars, refVars>>

RemoveLayer ==
    \E layer \in LayerSpecs :
        remove_layer(layer) /\ UNCHANGED <<treeVars, xrefVars, extVars, ioVars, coerceVars, docVars, cloneVars, refVars>>

LayerNext ==
    \/ AddLayer
    \/ RemoveLayer

InitLayers == TreeIdle /\ LayerInit /\ XrefIdle /\ ExtIdle /\ IOIdle /\ CoerceIdle /\ DocIdle
        /\ CloneIdle /\ RefIdle

SpecLayers == InitLayers /\ [][LayerNext]_vars

\* In the cross-reference specification the tree is built with map adds:
\* the Part is attached to the file, children are attached to the Part.
XrefAddMap ==
    \E o \in LibraryOwners \cup Parts, s \in Nodes :
        /\ xres = <<"none">>
        /\ Tick /\ add_map(o, s) /\ UNCHANGED tcall
        /\ UNCHANGED <<layerVars, xrefVars, extVars, ioVars, coerceVars, docVars, cloneVars, refVars>>

\* One call of Part.check_sanity ends the run: its result stays comparable
\* with the state it was computed in.
PartCheckSanity ==
    \E p \in Parts :
        /\ xres = <<"none">>
        /\ xres' = Part_check_sanity(p)
        /\ UNCHANGED <<library, deviceset, device, technology, libraries, xfound>>
        /\ UNCHANGED <<treeVars, layerVars, extVars, ioVars, coerceVars, docVars, cloneVars, refVars>>

\* One call of a find_* method of the Part; it assigns nothing.
Find ==
    \E p \in Parts, step \in DOMAIN FindSteps :
        /\ xres = <<"none">>
        /\ xfound = <<"none">>
        /\ xfound' = <<step>> \o find(p, step)
        /\ UNCHANGED <<library, deviceset, device, technology, libraries, xres>>
        /\ UNCHANGED <<treeVars, layerVars, extVars, ioVars, coerceVars, docVars, cloneVars, refVars>>

XrefNext ==
    \/ XrefAddMap
    \/ PartCheckSanity
    \/ Find

InitXref == TreeInit /\ LayerIdle /\ XrefInit /\ ExtIdle /\ IOIdle /\ CoerceIdle /\ DocIdle
        /\ CloneIdle /\ RefIdle

SpecXref == InitXref /\ [][XrefNext]_vars

AddDevice ==
    \E d \in InitialDevices :
        add_device(d) /\ UNCHANGED <<treeVars, layerVars, xrefVars, ioVars, coerceVars, docVars, cloneVars, refVars>>

ConvertToExternal ==
    convertToExternal /\ UNCHANGED <<treeVars, layerVars, xrefVars, ioVars, coerceVars, docVars, cloneVars, refVars>>

ExtNext ==
    \/ AddDevice
    \/ ConvertToExternal

InitExt == TreeIdle /\ LayerIdle /\ XrefIdle /\ ExtInit /\ IOIdle /\ CoerceIdle /\ DocIdle
        /\ CloneIdle /\ RefIdle

SpecExt == InitExt /\ [][ExtNext]_vars

\* The documents of the load/save specification: the part's library key
\* varies, and so does the content of the libraries map.
IODocument ==
    /\ library \in {"a", "b"}
    /\ deviceset = "a"
    /\ device = "a"
    /\ technology = "a"
    /\ libraries \in LibraryContents
    /\ xres = <<"none">>
    /\ xfound = <<"none">>

FromFileParse ==
    from_file_parse /\ UNCHANGED <<treeVars, layerVars, xrefVars, extVars, coerceVars, docVars, cloneVars, refVars>>

FromFileValidate ==
    from_file_validate /\ UNCHANGED <<treeVars, layerVars, xrefVars, extVars, coerceVars, docVars, cloneVars, refVars>>

FromFileFromEt ==
    /\ from_file_from_et
    /\ UNCHANGED <<items, single, mapkey, nops, tcall>>
    /\ UNCHANGED <<layerVars, xrefVars, extVars, coerceVars, docVars, cloneVars, refVars>>

FromFileCheckSanity ==
    from_file_check_sanity /\ UNCHANGED <<treeVars, layerVars, xrefVars, extVars, coerceVars, docVars, cloneVars, refVars>>

FromFileReturn ==
    from_file_return /\ UNCHANGED <<treeVars, layerVars, xrefVars, extVars, coerceVars, docVars, cloneVars, refVars>>

ConstructFile ==
    construct_file /\ UNCHANGED <<treeVars, layerVars, xrefVars, extVars, coerceVars, docVars, cloneVars, refVars>>

SetDevice ==
    \E lib \in {"a", "b"} :
        /\ ef # None /\ wpc = "idle" /\ lib # library
        /\ set_device(lib)
        /\ UNCHANGED <<treeVars, layerVars, extVars, ioVars, coerceVars, docVars, cloneVars, refVars>>

WriteCheckSanity ==
    write_check_sanity /\ UNCHANGED <<treeVars, layerVars, xrefVars, extVars, coerceVars, docVars, cloneVars, refVars>>

WriteOpen ==
    write_open /\ UNCHANGED <<treeVars, layerVars, xrefVars, extVars, coerceVars, docVars, cloneVars, refVars>>

WriteRaise ==
    write_raise /\ UNCHANGED <<treeVars, layerVars, xrefVars, extVars, coerceVars, docVars, cloneVars, refVars>>

IONext ==
    \/ FromFileParse
    \/ FromFileValidate
    \/ FromFileFromEt
    \/ FromFileCheckSanity
    \/ FromFileReturn
    \/ ConstructFile
    \/ SetDevice
    \/ WriteCheckSanity
    \/ WriteOpen
    \/ WriteRaise

InitIO ==
    TreeInit /\ LayerIdle /\ IODocument /\ ExtIdle /\ IOInit /\ CoerceIdle /\ DocIdle
        /\ CloneIdle /\ RefIdle

SpecIO == InitIO /\ [][IONext]_vars

restVars == <<treeVars, layerVars, xrefVars, extVars, ioVars>>

ParseByType ==
    /\ cval = Unset
    /\ cval' = parseByType(ctype, craw)
    /\ UNCHANGED <<ctype, craw, cout>>
    /\ UNCHANGED <<restVars, docVars, cloneVars, refVars>>

\* unparseByType is called with a value: what a parseByType that returned
\* has produced.
UnparseByType ==
    /\ cval \notin {Unset, Raised} /\ cout = Unset
    /\ cout' = unparseByType(ctype, cval)
    /\ UNCHANGED <<ctype, craw, cval>>
    /\ UNCHANGED <<restVars, docVars, cloneVars, refVars>>

CoerceNext ==
    \/ ParseByType
    \/ UnparseByType

InitCoerce ==
    TreeIdle /\ LayerIdle /\ XrefIdle /\ ExtIdle /\ IOIdle /\ CoerceInit /\ DocIdle
        /\ CloneIdle /\ RefIdle

SpecCoerce == InitCoerce /\ [][CoerceNext]_vars

\* parse(D)
FromEt ==
    /\ rtree.raised = "unset"
    /\ rtree' = from_et(rdoc)
    /\ UNCHANGED <<rdoc, rser, rtree2>>
    /\ UNCHANGED <<restVars, coerceVars, cloneVars, refVars>>

\* serialize(parse(D))
GetEt ==
    /\ rtree.raised = "none" /\ rser = NoElement
    /\ rser' = get_et(rtree)
    /\ UNCHANGED <<rdoc, rtree, rtree2>>
    /\ UNCHANGED <<restVars, coerceVars, cloneVars, refVars>>

\* parse(serialize(parse(D)))
FromEtAgain ==
    /\ rser # NoElement /\ rtree2.raised = "unset"
    /\ rtree2' = from_et(rser)
    /\ UNCHANGED <<rdoc, rtree, rser>>
    /\ UNCHANGED <<restVars, coerceVars, cloneVars, refVars>>

DocNext ==
    \/ FromEt
    \/ GetEt
    \/ FromEtAgain

InitDoc ==
    TreeIdle /\ LayerIdle /\ XrefIdle /\ ExtIdle /\ IOIdle /\ CoerceIdle /\ DocInit
        /\ CloneIdle /\ RefIdle

SpecDoc == InitDoc /\ [][DocNext]_vars

\* The clone specification: one clone() of a node of a well-formed tree.
allButClone == <<treeVars, layerVars, xrefVars, extVars, ioVars, coerceVars, docVars, refVars>>

Clone ==
    \E x \in Originals :
        /\ hres = None
        /\ clone(x)
        /\ UNCHANGED allButClone

CloneNext == Clone

InitClone ==
    TreeIdle /\ LayerIdle /\ XrefIdle /\ ExtIdle /\ IOIdle /\ CoerceIdle /\ DocIdle
        /\ CloneInit /\ RefIdle

SpecClone == InitClone /\ [][CloneNext]_vars

\* The layer-reference specification: a tree is built with add on lists,
\* layers are added to the file, then one layer_string coercion is made for a
\* node or for None (from_et passes its parent argument, None for a root).
allButTreeAndRef == <<layerVars, xrefVars, extVars, ioVars, coerceVars, docVars, cloneVars>>

RefAddList ==
    \E o \in Nodes, s \in Nodes :
        /\ rref = NoRef
        /\ Tick /\ add_list(o, s) /\ UNCHANGED tcall
        /\ UNCHANGED <<allButTreeAndRef, refVars>>

RefAddLayer ==
    \E layer \in LayerIds :
        /\ rref = NoRef
        /\ add_layer(layer)
        /\ UNCHANGED <<treeVars, xrefVars, extVars, ioVars, coerceVars, docVars, cloneVars, refVars>>

ParseLayerString ==
    \E efp \in Nodes \cup {None}, num \in LayerNumbers :
        /\ rref = NoRef
        /\ rref' = [op |-> "parse", efp |-> efp, res |-> parse_layer_string(efp, num)]
        /\ UNCHANGED <<treeVars, allButTreeAndRef>>

UnparseLayerString ==
    \E efp \in Nodes \cup {None}, name \in LayerNames :
        /\ rref = NoRef
        /\ rref' = [op |-> "unparse", efp |-> efp, res |-> unparse_layer_string(efp, name)]
        /\ UNCHANGED <<treeVars, allButTreeAndRef>>

RefNext ==
    \/ RefAddList
    \/ RefAddLayer
    \/ ParseLayerString
    \/ UnparseLayerString

InitRef ==
    TreeInit /\ RefInit /\ XrefIdle /\ ExtIdle /\ IOIdle /\ CoerceIdle /\ DocIdle
        /\ CloneIdle

SpecRef == InitRef /\ [][RefNext]_vars

(***************************************************************************)
(* The claims.                                                             *)
(***************************************************************************)

\* Owner o holds node n: as a list element, a map value or the singleton
\* occupant.
Holds(o, n) ==
    \/ n \in Range(items[o])
    \/ n \in MapValues(o)
    \/ single[o] = n

\* The number of places of o's containers that hold n.
Occurrences(o, n) ==
    Cardinality({i \in 1..Len(items[o]) : items[o][i] = n})
        + Cardinality({k \in Keys : entries[o][k] = n})
        + (IF single[o] = n THEN 1 ELSE 0)

RECURSIVE SumOccurrences(_, _)
SumOccurrences(owners, n) ==
    IF owners = {} THEN 0
    ELSE LET o == CHOOSE x \in owners : TRUE
         IN  Occurrences(o, n) + SumOccurrences(owners \ {o}, n)

\* The number of places of all containers that hold n.
HoldCount(n) == SumOccurrences(Nodes, n)

\* The nodes of o's subtree: o and what is held, through any container, below.
RECURSIVE Reach(_, _)
Reach(seen, k) ==
    IF k = 0 THEN seen
    ELSE Reach(seen \cup {n \in Nodes : \E h \in seen : Holds(h, n)}, k - 1)

Subtree(o) == Reach({o}, Cardinality(Nodes))

\* C1: after any sequence of container operations, every node held in a
\* container of owner o (list element, map value or singleton occupant) has
\* parent o.
C1_HeldNodeHasOwnerAsParent ==
    \A o \in Nodes, n \in Nodes : Holds(o, n) => parent[n] = o

\* No node is held, directly or through other nodes, by itself.
Acyclic == \A o \in Nodes, n \in Nodes : Holds(o, n) => o \notin Subtree(n)

\* C2: check_sanity on a node succeeds if and only if every node held in any
\* container (list, map or singleton) of any node of its subtree is held
\* exactly once and has the node that holds it as its parent.  Stated for the
\* states without a cycle of holders, where check_sanity ends by itself.
C2_SanityIffOwnership ==
    Acyclic =>
        \A o \in Nodes :
            (check_sanity(o) = "ok")
                <=> (\A h \in Subtree(o), n \in Nodes :
                        Holds(h, n) => HoldCount(n) = 1 /\ parent[n] = h)

\* A layer other than l is stored under l's number or under l's name.
LayerConflict(l) ==
    \/ layers[lnumber[l]] \notin {None, l}
    \/ layersByName[lname[l]] \notin {None, l}

\* C4: add_layer with a Layer whose number or name is already used by a
\* different layer of the table is rejected with an error and leaves both
\* indexes unchanged.
C4_AddLayerRejectsConflict ==
    [][\A l \in LayerIds :
          (LayerConflict(l) /\ add_layer(l))
              => (lres' # "ok" /\ layers' = layers
                    /\ layersByName' = layersByName)]_vars

\* C5: after any sequence of add_layer and remove_layer calls, every name
\* present in the name index satisfies
\* layer_number_to_name(layer_name_to_number(name)) == name.
C5_LayerRoundTrip ==
    \A name \in LayerNames :
        layersByName[name] # None
            => (LayerRoundTrip(name)[1] = "ok" /\ LayerRoundTrip(name)[2] = name)

\* The chain root.libraries -> devicesets -> devices resolves for Part p up
\* to and including depth d.
Resolves(p, d) ==
    /\ get_root(p) \in LibraryOwners
    /\ SubSeq(<<library, deviceset, device>>, 1, d) \in libraries

\* The first key of the chain that does not resolve.
CheckedKeys == <<library, deviceset, device>>
FirstMissing(p) == CHOOSE d \in 1..3 : ~Resolves(p, d) /\ \A e \in 1..(d - 1) : Resolves(p, e)

\* C6: Part.check_sanity fails with an error naming the part and the missing
\* key whenever library, deviceset or device does not resolve, and passes
\* whenever all three resolve, whether or not the technology resolves.
C6_PartSanityIffResolved ==
    \A p \in Parts :
        xres # <<"none">> =>
            IF Resolves(p, 3)
            THEN xres = <<"ok">>
            ELSE /\ xres[1] = "HighEagleError"
                 /\ Len(xres) = 4
                 /\ xres[3] = CheckedKeys[FirstMissing(p)]
                 /\ xres[4] = PartName

\* The attribute names a technology of device d carries.
AttributeNames(d, t) == {a \in AttrNames : attrs[d][t][a] # Absent}

\* The attribute names of all technologies of all devices the device-set
\* holds.
PriorAttributeNames ==
    {a \in AttrNames :
        \E i \in DeviceValues : \E t \in techs[i] : a \in AttributeNames(i, t)}

\* C7 as the specification states it: externalizing a device-set with
\* devices leaves exactly one device, named "" with package "_EXTERNAL_",
\* which has exactly one technology, and that technology carries the
\* attributes of all prior devices and the marker.
C7_ExternalizeMigratesAllAttributes ==
    [][(ConvertToExternal /\ DeviceValues # {}) =>
          /\ Cardinality(DeviceValues') = 1
          /\ \A d \in DeviceValues' :
                /\ dname'[d] = ""
                /\ dpackage'[d] = "_EXTERNAL_"
                /\ Cardinality(techs'[d]) = 1
                /\ \A t \in techs'[d] :
                      AttributeNames(d, t)' = PriorAttributeNames \cup {"_EXTERNAL_"}]_vars

\* C7, as the code has it: externalizing a device-set with devices leaves
\* exactly one device, which is one of the prior devices, renamed "" with
\* package "_EXTERNAL_" and without connects; the other prior devices are
\* out of the map with parent None; the device keeps its own technologies,
\* and every one of them keeps its own attributes and has the marker under
\* "_EXTERNAL_"; no attribute of another device is migrated.  A device whose
\* technologies are a list (constructed by the externalization of an empty
\* device-set) is renamed and re-added, then AttributeError is raised.
C7_ExternalizeKeepsOneDevice ==
    [][(ConvertToExternal /\ DeviceValues # {}) =>
          \E d \in DeviceValues :
              /\ DeviceValues' = {d}
              /\ devices'[""] = d
              /\ dname'[d] = "" /\ dpackage'[d] = "_EXTERNAL_" /\ dconnects'[d] = 0
              /\ dparent'[d] = DevicesetNode
              /\ \A i \in DeviceValues \ {d} : dparent'[i] = None
              /\ techs' = techs
              /\ \A i \in DevIds \ {d} : attrs'[i] = attrs[i]
              /\ IF techsKind[d] = "dict"
                 THEN /\ eres' = "ok"
                      /\ \A t \in techs[d], a \in AttrNames :
                            attrs'[d][t][a] =
                                IF a = "_EXTERNAL_" THEN NoValue ELSE attrs[d][t][a]
                 ELSE /\ eres' = "AttributeError"
                      /\ attrs'[d] = attrs[d]]_vars

\* convertToExternal has returned on a device-set of two devices: the one
\* that is kept has two technologies, both tagged, and lacks an attribute
\* that the removed device carries.
C7_Witness ==
    /\ eres = "ok"
    /\ Cardinality(eprior) = 2
    /\ \E d \in DeviceValues :
          /\ Cardinality(techs[d]) = 2
          /\ \A t \in techs[d] : attrs[d][t]["_EXTERNAL_"] = NoValue
          /\ \A t \in techs[d] : attrs[d][t]["X"] = Absent
          /\ \E i \in eprior \ {d} : \E t \in techs[i] : attrs[i][t]["X"] = "v"

\* The last step from_file has taken.
LastStep == IF flog = <<>> THEN "none" ELSE flog[Len(flog)]

\* C8: from_file without bestEffort fails with an error and returns no tree
\* when the validation of the input fails; with bestEffort it goes on to
\* build the tree; in both modes the step before the return is a check_sanity
\* that the tree has passed: no child of the file has another parent and the
\* Part resolves.
C8_LoadModesAndFinalCheck ==
    /\ (fin.wellformed /\ ~fin.valid /\ ~fin.bestEffort /\ fpc = "done"
            /\ fres # "constructed")
          => (fres = "EagleFormatError" /\ ef = None
                /\ LastStep = "validate failed")
    /\ (fin.wellformed /\ ~fin.valid /\ fin.bestEffort /\ fpc = "done"
            /\ fres # "constructed")
          => (flog[2] = "validate failed" /\ flog[3] = "from_et")
    /\ fpc = "checked"
          => /\ LastStep = "check_sanity"
             /\ \A n \in Nodes : Holds(LoadedFile, n) => parent[n] = LoadedFile
             /\ Holds(LoadedFile, LoadedPart)
             /\ Resolves(LoadedPart, 3)
    /\ fres = "returned" => (LastStep = "check_sanity" /\ ef = LoadedFile)

\* from_file with bestEffort has returned the tree of an input that failed
\* validation.
C8_Witness ==
    /\ fres = "returned"
    /\ ~fin.valid /\ fin.bestEffort
    /\ flog = <<"parse", "validate failed", "from_et", "check_sanity">>

\* The serialization of the file fails validation: the DTD rejects it or an
\* attribute reads "None".
FailsValidation == ~win.valid \/ win.noneAttribute

CaseVariants(w) ==
    {s \in [1..Len(w) -> Chars] :
        \A i \in 1..Len(w) : \E c \in Chars : s[i] \in {c, UpperChar(c)} /\ w[i] = UpperChar(c)}

\* C10: parseByType "bool" of a case variant of "YES" is True, of a case
\* variant of "NO" is False, and of any other raw string raises;
\* unparseByType "bool" of True is "yes" and of False is "no".
C10_BoolCoercion ==
    (ctype = "bool" /\ craw # PyNone /\ cval # Unset) =>
        /\ craw \in CaseVariants(<<"Y", "E", "S">>) => cval = PyTrue
        /\ craw \in CaseVariants(<<"N", "O">>) => cval = PyFalse
        /\ craw \notin CaseVariants(<<"Y", "E", "S">>) \cup CaseVariants(<<"N", "O">>)
              => cval = Raised
        /\ cout # Unset =>
              /\ cval = PyTrue => cout = <<"y", "e", "s">>
              /\ cval = PyFalse => cout = <<"n", "o">>

\* "yEs" has been parsed to True and unparsed to "yes".
C10_Witness ==
    /\ ctype = "bool"
    /\ craw = <<"y", "E", "s">>
    /\ cval = PyTrue
    /\ cout = <<"y", "e", "s">>

\* Element e carries every required attribute.
HasRequired(e) == \A k \in AttrKeys : required(k) => e.attrs[k] # PyNone

\* C3: for a document D that from_et accepts, from_et of get_et of from_et(D)
\* is deep-equal to from_et(D): same attribute values, same children in the
\* same order, same text.  Stated for the documents whose elements carry
\* their required attributes.
C3_RoundTrip ==
    (/\ HasRequired(rdoc)
     /\ \A i \in 1..Len(rdoc.children) : HasRequired(rdoc.children[i])
     /\ rser # NoElement /\ rtree2.raised # "unset")
        => rtree2 = rtree

\* C11: parseByType "constant_bool" of the raw string "no" is False and of
\* every other raw input, an absent one included, is True; unparseByType
\* "constant_bool" of False is "no" and of True is None (no attribute).
C11_DefaultTrueCoercion ==
    (ctype = "constant_bool" /\ cval # Unset) =>
        /\ craw = <<"n", "o">> => cval = PyFalse
        /\ craw # <<"n", "o">> => cval = PyTrue
        /\ cout # Unset =>
              /\ cval = PyFalse => cout = <<"n", "o">>
              /\ cval = PyTrue => cout = PyNone

\* C12: add on a map section whose key for the child is used by a different
\* child of that map is rejected with an error and leaves the map and every
\* parent link (that of the child stored there included) unchanged.
C12_AddMapRejectsDuplicateKey ==
    [][\A o \in Nodes, n \in Nodes :
          (entries[o][mapkey[n]] \notin {None, n} /\ add_map(o, n))
              => (tres' # "ok" /\ entries' = entries /\ parent' = parent)]_vars

\* C13: after clear on a list or a map section the container is empty and
\* every node it held immediately before the call has parent None.
C13_ClearDetachesAll ==
    /\ tcall.op = "clear_list" =>
          /\ items[tcall.owner] = <<>>
          /\ \A n \in tcall.nodes : parent[n] = None
    /\ tcall.op = "clear_map" =>
          /\ MapValues(tcall.owner) = {}
          /\ \A n \in tcall.nodes : parent[n] = None

\* A container that held two nodes has just been cleared.
C13_Witness ==
    /\ tcall.op \in {"clear_list", "clear_map"}
    /\ Cardinality(tcall.nodes) = 2
    /\ get_children(tcall.owner) = {}
    /\ \A n \in tcall.nodes : parent[n] = None

\* Object h holds object n in its list, its map or its singleton slot.
HeapHolds(h, n) ==
    \/ n \in Range(hitems[h])
    \/ n \in HeapMapValues(h)
    \/ hsingle[h] = n

\* C14: clone() returns a copy whose parent is none; every descendant of the
\* copy, through lists, maps and singleton slots, is a fresh node whose parent
\* is the node holding it inside the copy, so the copy shares no node with the
\* original; and the original tree is unchanged.
C14_CloneIsDeepAndDetached ==
    [][hres' # hres =>
          LET copy == Cloned({hres}, Cardinality(Originals))'
          IN  /\ hparent'[hres'] = None
              /\ \A d \in copy \ {hres'} :
                    /\ d \notin Originals
                    /\ \A h \in copy : HeapHolds(h, d)' => hparent'[d] = h
              /\ copy \cap Originals = {}
              /\ \A n \in Originals :
                    /\ hparent'[n] = hparent[n]
                    /\ hitems'[n] = hitems[n]
                    /\ hentries'[n] = hentries[n]
                    /\ hsingle'[n] = hsingle[n]]_vars

\* C14 without the singleton slots: the copies of list and map children.
C14_ListAndMapChildren ==
    [][hres' # hres =>
          LET copy == Cloned({hres}, Cardinality(Originals))'
          IN  /\ hparent'[hres'] = None
              /\ \A d \in copy \ {hres'} :
                    /\ d \notin Originals
                    /\ \A h \in copy :
                          (d \in Range(hitems'[h]) \/ d \in HeapMapValues(h)')
                              => hparent'[d] = h
              /\ \A n \in Originals :
                    /\ hparent'[n] = hparent[n]
                    /\ hitems'[n] = hitems[n]
                    /\ hentries'[n] = hentries[n]
                    /\ hsingle'[n] = hsingle[n]]_vars

\* The layer a remove_layer argument denotes: the Layer itself, the layer
\* stored under the name, or the layer stored under the number.
LayerOf(layer) ==
    CASE layer[1] = "str" -> layersByName[layer[2]]
      [] layer[1] = "int" -> layers[layer[2]]
      [] layer[1] = "Layer" -> layer[2]
      [] OTHER -> None

\* Layer l is stored in the table.
LayerPresent(l) ==
    /\ l # None
    /\ \/ \E num \in LayerNumbers : layers[num] = l
       \/ \E name \in LayerNames : layersByName[name] = l

\* The step took layer l, and nothing else, out of both indexes.
RemovedOnly(l) ==
    /\ \A num \in LayerNumbers :
          layers'[num] = IF layers[num] = l THEN None ELSE layers[num]
    /\ \A name \in LayerNames :
          layersByName'[name] =
              IF layersByName[name] = l THEN None ELSE layersByName[name]
    /\ lparent'[l] = None

\* C15: remove_layer called with a Layer, a layer name or a layer number that
\* is present in the file removes that layer from both the number index and
\* the name index, sets its parent to none, and leaves every other layer's
\* entry in both indexes unchanged.
C15_RemoveLayerRemovesOnlyThatLayer ==
    [][\A layer \in LayerSpecs :
          (LayerPresent(LayerOf(layer)) /\ remove_layer(layer))
              => RemovedOnly(LayerOf(layer))]_vars

\* Every stored layer is stored under its own number and its own name, in
\* both indexes: the tables add_layer builds when no add conflicts (C4).
LayerTableConsistent ==
    /\ \A num \in LayerNumbers :
          layers[num] # None =>
              /\ lnumber[layers[num]] = num
              /\ layersByName[lname[layers[num]]] = layers[num]
    /\ \A name \in LayerNames :
          layersByName[name] # None =>
              /\ lname[layersByName[name]] = name
              /\ layers[lnumber[layersByName[name]]] = layersByName[name]

\* C15 on the tables that no conflicting add_layer has touched.
C15_OnConsistentTable ==
    [][\A layer \in LayerSpecs :
          (LayerTableConsistent /\ LayerPresent(LayerOf(layer))
                /\ remove_layer(layer))
              => RemovedOnly(LayerOf(layer))]_vars

\* C16: remove on a map deletes exactly the entry of the given node and sets
\* the parent of the node that was stored there to none; with a node whose
\* key is absent it raises a lookup error and changes neither the map nor any
\* parent.
C16_RemoveMapDeletesEntryOfNode ==
    [][\A o \in Nodes, efp \in Nodes :
          remove_map(o, efp) =>
              IF entries[o][mapkey[efp]] = None
              THEN tres' = "KeyError" /\ entries' = entries /\ parent' = parent
              ELSE LET stored == entries[o][mapkey[efp]]
                   IN  /\ tres' = "ok"
                       /\ entries' = [entries EXCEPT ![o][mapkey[efp]] = None]
                       /\ parent' = [parent EXCEPT ![stored] = None]]_vars

\* C17: externalizing a device-set with zero devices succeeds and leaves
\* exactly one device, named "" with package "_EXTERNAL_", that has exactly
\* one technology with an empty name carrying the marker attribute.
C17_ExternalizeEmptyDeviceset ==
    [][(ConvertToExternal /\ DeviceValues = {}) =>
          /\ eres' = "ok"
          /\ Cardinality(DeviceValues') = 1
          /\ \A d \in DeviceValues' :
                /\ dname'[d] = ""
                /\ dpackage'[d] = "_EXTERNAL_"
                /\ techs'[d] = {""}
                /\ attrs'[d][""]["_EXTERNAL_"] # Absent]_vars

\* The chain of Part p resolves up to and including step d of the four.
ResolvesTo(p, d) ==
    SubSeq(<<library, deviceset, device, technology>>, 1, d) \in libraries

\* C18: every find_* step called on a Part whose key for that step, or for
\* an earlier step, does not resolve fails with a descriptive error that
\* names the unresolved segment and the part; no step returns an absent
\* value, and no step changes the tree.
C18_FindFailsOnUnresolvedKey ==
    [][\A p \in Parts, step \in DOMAIN FindSteps :
          (Find /\ xfound'[1] = step /\ get_root(p) \in LibraryOwners) =>
              /\ xfound'[2] # "None"
              /\ ~ResolvesTo(p, step) =>
                    /\ xfound'[2] = "HighEagleError"
                    /\ \E d \in 1..step :
                          /\ ~ResolvesTo(p, d)
                          /\ xfound' = <<step, "HighEagleError", FindSteps[d], PartName>>
              /\ UNCHANGED treeVars
              /\ libraries' = libraries]_vars

\* What the find_* steps do on a chain that does not resolve: the step whose
\* own key is the first that is not found returns None, and every step after
\* it raises AttributeError; the tree is not changed.
C18_FindReturnsNoneOrAttributeError ==
    [][\A p \in Parts, step \in DOMAIN FindSteps :
          (Find /\ xfound'[1] = step /\ get_root(p) \in LibraryOwners
                /\ ~ResolvesTo(p, step)) =>
              /\ xfound'[2] = IF step = 1 \/ ResolvesTo(p, step - 1)
                              THEN "None" ELSE "AttributeError"
              /\ UNCHANGED treeVars
              /\ libraries' = libraries]_vars

\* C19: a layer-reference coercion for a node whose ownership chain does not
\* reach a file root fails with a resolution error of the library's
\* schema-error kind (HighEagleError), not with any other failure and not
\* with a value.
C19_UnattachedLayerReferenceFails ==
    (/\ rref.op # "none"
     /\ rref.efp # None
     /\ get_root(rref.efp) \notin {None, FileNode})
        => rref.res[1] = "HighEagleError"

\* On a node whose chain reaches the file, the coercion is the lookup in the
\* file's layer table: a value, or the HighEagleError of the lookup.
C19_AttachedLayerReference ==
    (rref.op # "none" /\ rref.efp # None /\ get_root(rref.efp) = FileNode)
        => rref.res[1] \in {"ok", "HighEagleError"}

\* C20: after any sequence of container operations, every node that no
\* container holds (no list, no map, no singleton slot) has parent None.
C20_UnheldNodeHasNoParent ==
    \A n \in Nodes :
        (\A h \in Nodes : ~Holds(h, n)) => parent[n] = None

====
